---- MODULE Spec2Model ----
(***************************************************************************)
(* Model of app.py, the Streamlit spending tracker.  One script run of a   *)
(* browser session is the sequence: authentication block, auth gate,       *)
(* fetch_categories, the spending form with its submit handler, and the    *)
(* fetch_spendings display.  Firestore, the authentication service and     *)
(* the st.cache_data cache are shared by all sessions of the process.      *)
(* Script runs are serialized: one request is in flight at a time.         *)
(*                                                                         *)
(* Python strings that the code trims, title-cases or compares are         *)
(* sequences of one-character strings; user ids and message tags are       *)
(* plain strings.  Amounts are in cents.                                   *)
(***************************************************************************)
EXTENDS Integers, Sequences, FiniteSets, TLC

\* ------------------------------------------------------------ bounds

\* Total number of documents the store accepts in one exploration.
MaxDocs == 2

\* ------------------------------------------------------- Python strings

Lowers == << "a","b","c","d","e","f","g","h","i","j","k","l","m",
             "n","o","p","q","r","s","t","u","v","w","x","y","z" >>
Uppers == << "A","B","C","D","E","F","G","H","I","J","K","L","M",
             "N","O","P","Q","R","S","T","U","V","W","X","Y","Z" >>

\* The characters in code-point order: ' ' < '-' < 'A'..'Z' < 'a'..'z'.
CodePoints == << " ", "-" >> \o Uppers \o Lowers

Ord(c) == CHOOSE i \in 1..Len(CodePoints) : CodePoints[i] = c

IsLower(c) == \E i \in 1..Len(Lowers) : Lowers[i] = c
IsUpper(c) == \E i \in 1..Len(Uppers) : Uppers[i] = c
IsCased(c) == IsLower(c) \/ IsUpper(c)
IsSpace(c) == c = " "

Upper(c) == IF IsLower(c) THEN Uppers[CHOOSE i \in 1..Len(Lowers) : Lowers[i] = c] ELSE c
Lower(c) == IF IsUpper(c) THEN Lowers[CHOOSE i \in 1..Len(Uppers) : Uppers[i] = c] ELSE c

\* str.strip(): drop leading and trailing whitespace.
RECURSIVE LStrip(_)
LStrip(str) == IF str # << >> /\ IsSpace(Head(str)) THEN LStrip(Tail(str)) ELSE str

RECURSIVE RStrip(_)
RStrip(str) ==
    IF str # << >> /\ IsSpace(str[Len(str)])
    THEN RStrip(SubSeq(str, 1, Len(str) - 1))
    ELSE str

Strip(str) == RStrip(LStrip(str))

\* str.title(): a cased character is upper-cased when it follows an uncased
\* character (or starts the string) and lower-cased otherwise.
Title(str) ==
    [i \in 1..Len(str) |->
        IF i = 1 \/ ~IsCased(str[i - 1]) THEN Upper(str[i]) ELSE Lower(str[i])]

\* Python's None for a string-valued variable, and truthiness of a string.
NoneStr == << "None" >>
Truthy(str) == str # NoneStr /\ str # << >>

\* Lexicographic order of Python strings (by code point).
RECURSIVE StrLess(_, _)
StrLess(a, b) ==
    IF b = << >> THEN FALSE
    ELSE IF a = << >> THEN TRUE
    ELSE IF Head(a) = Head(b) THEN StrLess(Tail(a), Tail(b))
    ELSE Ord(Head(a)) < Ord(Head(b))

\* sorted(list) of strings, ascending.
RECURSIVE Insert(_, _)
Insert(x, lst) ==
    IF lst = << >> THEN << x >>
    ELSE IF StrLess(Head(lst), x) THEN << Head(lst) >> \o Insert(x, Tail(lst))
    ELSE << x >> \o lst

RECURSIVE Sorted(_)
Sorted(lst) == IF lst = << >> THEN << >> ELSE Insert(Head(lst), Sorted(Tail(lst)))

Elems(lst) == { lst[i] : i \in 1..Len(lst) }

\* --------------------------------------------------- program constants

\* Line 143: the two sentinel entries of the category selectbox.
SELECT_EXISTING == << "S", "e", "l", "e", "c", "t", " ", "a", "n", " ", "e", "x", "i", "s", "t", "i", "n", "g", " ", "c", "a", "t", "e", "g", "o", "r", "y" >>
CREATE_NEW == << "-", "-", "-", " ", "C", "r", "e", "a", "t", "e", " ", "N", "e", "w", " ", "C", "a", "t", "e", "g", "o", "r", "y", " ", "-", "-", "-" >>

\* Line 64: the fallback user id set when authentication fails.
FALLBACK_ID == "anonymous_unauthenticated"

\* Python's None for session_state.user_id.
NoneId == "None"

\* Line 188: firestore.SERVER_TIMESTAMP, the placeholder a write carries.
SERVER_TIMESTAMP == "SERVER_TIMESTAMP"

\* Line 139: st.number_input(min_value=0.01), in cents.
MinValue == 1

\* ------------------------------------------------------------- inputs

Sessions == { "s1", "s2" }
Users == { "u1", "u2" }

\* The uid the custom token of line 12 stands for, when one is configured.
TokenUid == "u1"

\* The uid of the account an anonymous sign-in creates for a session.
AnonymousUid(s) == IF s = "s1" THEN "u1" ELSE "u2"

\* The user ids a collection path users/{uid}/... can name.
Paths == Users \cup { FALLBACK_ID }

\* What the amount widget returns: a value >= min_value; here its default,
\* the minimum itself.
Amounts == { MinValue }

\* What the user can type in the description box.
Descriptions == { << >>, << " " >>, << " ", "L", "u", "n", "c", "h", " " >> }

\* What the user can type in the "Enter New Category Name" box.
NewNames == { << >>, << " " >>, << "c", "o", "f", "f", "e", "e" >>, << " ", "C", "o", "f", "f", "e", "e", " " >> }

\* ------------------------------------------------------------- state

VARIABLES
    initial_auth_token, \* line 12: TRUE when a custom token is configured
    sessions,           \* the browser sessions the process serves
    session_state,      \* per session: user_id, auth_ready, last_update_time (0: key absent)
    categoriesColl,     \* Firestore users/{uid}/categories: sequence of documents
    spendingsColl,      \* Firestore users/{uid}/spendings: sequence of documents
    cache,              \* st.cache_data: one entry per cached function, << >> when empty
    clock,              \* datetime.now() and the server's commit time
    running,            \* the session whose script run is the current (or last) one
    pc,                 \* position of that script run
    categories,         \* the list line 134 assigned in the run
    categories_src,     \* uid of the collection that list was read from
    spendings_df,       \* the rows line 204 assigned in the run
    form,               \* the widget values of the run
    msgs,               \* st.error / st.success / st.warning shown in the run
    writes,             \* add() calls of the run's form step, in order
    pending,            \* per session: the category its last successful submit
                        \* created, until the session's next form step
    authAttempts        \* per session: number of sign-in calls made

vars == << initial_auth_token, sessions, session_state, categoriesColl, spendingsColl, cache,
           clock, running, pc, categories, categories_src, spendings_df, form, msgs, writes,
           pending, authAttempts >>

\* The form before any input: the amount at its minimum, the first entry
\* of the selectbox chosen, no name box.
NoForm == [ submitted |-> FALSE, amount |-> MinValue, description |-> << >>,
            index |-> 1, typed |-> NoneStr ]

InitProcess ==
    /\ initial_auth_token \in BOOLEAN
    /\ session_state = [s \in Sessions |->
           [ user_id |-> NoneId, auth_ready |-> FALSE, last_update_time |-> 0 ]]
    /\ categoriesColl = [u \in Paths |-> << >>]
    /\ spendingsColl = [u \in Paths |-> << >>]
    /\ cache = [ fetch_spendings |-> << >>, fetch_categories |-> << >> ]
    /\ clock = 1
    /\ running \in sessions
    /\ pc = "idle"
    /\ categories = << >>
    /\ categories_src = NoneId
    /\ spendings_df = << >>
    /\ form = NoForm
    /\ msgs = { }
    /\ writes = << >>
    /\ pending = [s \in Sessions |-> NoneStr]
    /\ authAttempts = [s \in Sessions |-> 0]

\* One browser session per process instance.
Init == sessions = { "s1" } /\ InitProcess

\* A process serving two browser sessions, each signed in anonymously.
InitShared == sessions = Sessions /\ InitProcess /\ ~initial_auth_token

\* -------------------------------------------------------- Firestore

DocCount ==
    LET RECURSIVE Sum(_)
        Sum(S) == IF S = { } THEN 0
                  ELSE LET u == CHOOSE x \in S : TRUE
                       IN Len(categoriesColl[u]) + Len(spendingsColl[u]) + Sum(S \ { u })
    IN Sum(Paths)

\* Lines 67-77: the collection path of the session's user, None without a user id.
get_collection_ref(ss) == IF ss.user_id # NoneId THEN ss.user_id ELSE NoneId

\* ------------------------------------------- authentication (47-64)

\* Lines 50-58: the uid a sign-in that succeeds returns: the token's with a
\* custom token, the session's own new account otherwise.
SignIn(s) == IF initial_auth_token THEN TokenUid ELSE AnonymousUid(s)

\* Lines 61-64: the session state after a failed sign-in.
AuthFailed(ss) == [ ss EXCEPT !.auth_ready = TRUE, !.user_id = FALLBACK_ID ]

\* Lines 52-53 / 58-59: the session state after a successful sign-in.
AuthSucceeded(ss, uid) == [ ss EXCEPT !.auth_ready = TRUE, !.user_id = uid ]

\* Lines 36-64, the head of a script run.  A run starts on a page load, a
\* refresh or a form submission, when no other run is in flight; the
\* sign-in is tried only while auth_ready is false.
AuthBlock(s) ==
    /\ pc \in { "idle", "stopped", "done" }
    /\ running' = s
    /\ \/ /\ ~session_state[s].auth_ready
          /\ session_state' = [session_state EXCEPT ![s] = AuthSucceeded(@, SignIn(s))]
          /\ authAttempts' = [authAttempts EXCEPT ![s] = @ + 1]
          /\ msgs' = { IF initial_auth_token THEN "authenticated_as"
                                              ELSE "signed_in_anonymously" }
       \/ /\ ~session_state[s].auth_ready
          /\ session_state' = [session_state EXCEPT ![s] = AuthFailed(@)]
          /\ authAttempts' = [authAttempts EXCEPT ![s] = @ + 1]
          /\ msgs' = { "authentication_failed" }
       \/ /\ session_state[s].auth_ready
          /\ msgs' = { }
          /\ UNCHANGED << session_state, authAttempts >>
    /\ pc' = "gate"
    /\ categories' = << >>
    /\ categories_src' = NoneId
    /\ spendings_df' = << >>
    /\ form' = NoForm
    /\ writes' = << >>
    /\ UNCHANGED << initial_auth_token, sessions, categoriesColl, spendingsColl, cache, clock,
                    pending >>

\* The gate without the comparison with the fallback id of line 124.
GatePassesAnyId(ss) ==
    /\ ss.auth_ready
    /\ ss.user_id # NoneId

\* Lines 120-126: whether the run goes on past the two st.stop() gates.
GatePasses(ss) ==
    /\ ss.auth_ready
    /\ ~(ss.user_id = NoneId \/ ss.user_id = FALLBACK_ID)

\* Lines 120-132: the gates, then the first setting of last_update_time.
AuthGate ==
    /\ pc = "gate"
    /\ IF GatePasses(session_state[running])
       THEN /\ pc' = "fetch"
            /\ session_state' = [session_state EXCEPT ![running].last_update_time =
                                    IF @ = 0 THEN clock ELSE @]
            /\ UNCHANGED msgs
       ELSE /\ pc' = "stopped"
            /\ msgs' = msgs \cup { "could_not_authenticate" }
            /\ UNCHANGED session_state
    /\ UNCHANGED << initial_auth_token, sessions, categoriesColl, spendingsColl, cache, clock,
                    running, categories, categories_src, spendings_df, form, writes,
                    pending, authAttempts >>

\* ------------------------------------------------ cached fetches (80-113)

\* st.cache_data keys an entry on the function and on the arguments whose
\* names do not start with an underscore.  Both fetch functions take only
\* _user_id and _timestamp, so each has a single entry, shared by every
\* session, that lives until its ttl of 60 seconds runs out.
CacheKey(fn, user_id, timestamp) == fn

\* Lines 104-113: the body of fetch_categories, run for the session's user.
fetch_categories_body(ss, failed) ==
    LET ref == get_collection_ref(ss)
    IN IF ref = NoneId THEN [ value |-> << >>, err |-> FALSE, src |-> NoneId ]
       ELSE IF failed THEN [ value |-> << >>, err |-> TRUE, src |-> NoneId ]
       ELSE [ value |-> Sorted([i \in 1..Len(categoriesColl[ref]) |->
                                   categoriesColl[ref][i].name]),
              err |-> FALSE, src |-> ref ]

\* order_by("timestamp", DESCENDING) of a list of documents.
RECURSIVE InsertDesc(_, _)
InsertDesc(d, lst) ==
    IF lst = << >> THEN << d >>
    ELSE IF Head(lst).timestamp > d.timestamp THEN << Head(lst) >> \o InsertDesc(d, Tail(lst))
    ELSE << d >> \o lst

RECURSIVE OrderByTimestampDesc(_)
OrderByTimestampDesc(docs) ==
    IF docs = << >> THEN << >>
    ELSE InsertDesc(Head(docs), OrderByTimestampDesc(Tail(docs)))

\* Lines 83-99: the body of fetch_spendings, run for the session's user.
fetch_spendings_body(ss, failed) ==
    LET ref == get_collection_ref(ss)
    IN IF ref = NoneId THEN [ value |-> << >>, err |-> FALSE, src |-> NoneId ]
       ELSE IF failed THEN [ value |-> << >>, err |-> TRUE, src |-> NoneId ]
       ELSE [ value |-> OrderByTimestampDesc(spendingsColl[ref]),
              err |-> FALSE, src |-> ref ]

\* Line 134: categories = fetch_categories(user_id, last_update_time).
FetchCategoriesStep ==
    /\ pc = "fetch"
    /\ LET ss == session_state[running]
           key == CacheKey("fetch_categories", ss.user_id, ss.last_update_time)
       IN \/ /\ cache[key] # << >>
             /\ categories' = cache[key][1].value
             /\ categories_src' = cache[key][1].src
             /\ msgs' = msgs \cup (IF cache[key][1].err
                                   THEN { "error_fetching_categories" } ELSE { })
             /\ UNCHANGED cache
          \/ /\ cache[key] = << >>
             /\ \E failed \in BOOLEAN :
                  LET r == fetch_categories_body(ss, failed)
                  IN /\ categories' = r.value
                     /\ categories_src' = r.src
                     /\ msgs' = msgs \cup (IF r.err
                                           THEN { "error_fetching_categories" } ELSE { })
                     /\ cache' = [cache EXCEPT ![key] = << r >>]
    /\ pc' = "form"
    /\ UNCHANGED << initial_auth_token, sessions, session_state, categoriesColl, spendingsColl,
                    clock, running, spendings_df, form, writes, pending, authAttempts >>

\* Lines 204-212: spendings_df = fetch_spendings(user_id, last_update_time),
\* the end of the run: clear_on_submit (line 136) resets the form.
DisplayStep ==
    /\ pc = "display"
    /\ LET ss == session_state[running]
           key == CacheKey("fetch_spendings", ss.user_id, ss.last_update_time)
       IN \/ /\ cache[key] # << >>
             /\ spendings_df' = cache[key][1].value
             /\ msgs' = msgs \cup (IF cache[key][1].err
                                   THEN { "error_fetching_spendings" } ELSE { })
             /\ UNCHANGED cache
          \/ /\ cache[key] = << >>
             /\ \E failed \in BOOLEAN :
                  LET r == fetch_spendings_body(ss, failed)
                  IN /\ spendings_df' = r.value
                     /\ msgs' = msgs \cup (IF r.err
                                           THEN { "error_fetching_spendings" } ELSE { })
                     /\ cache' = [cache EXCEPT ![key] = << r >>]
    /\ pc' = "done"
    /\ form' = NoForm
    /\ writes' = << >>
    /\ UNCHANGED << initial_auth_token, sessions, session_state, categoriesColl, spendingsColl,
                    clock, running, categories, categories_src, pending, authAttempts >>

\* Lines 80 and 101, ttl=60: an entry is dropped once it is a minute old.
ExpireCache(fn) ==
    /\ cache[fn] # << >>
    /\ cache' = [cache EXCEPT ![fn] = << >>]
    /\ UNCHANGED << initial_auth_token, sessions, session_state, categoriesColl, spendingsColl,
                    clock, running, pc, categories, categories_src, spendings_df, form,
                    msgs, writes, pending, authAttempts >>

\* ------------------------------------------- the spending form (136-197)

\* Line 143: the entries of the category selectbox.
category_options(cats) == << SELECT_EXISTING >> \o cats \o << CREATE_NEW >>

\* Lines 146-151: new_category_name after the widget block; typed is what
\* st.text_input returned (None when the box is not rendered).
new_category_name(selected, typed) ==
    IF selected = CREATE_NEW /\ Truthy(typed) THEN Title(Strip(typed)) ELSE typed

\* Lines 147-156: selected_category_option after the widget block.
selected_category_option(selected, typed) ==
    IF selected = CREATE_NEW /\ Truthy(typed)
    THEN new_category_name(selected, typed)
    ELSE selected

\* The validation without the two category branches of lines 163-166.
ValidateAmountAndDescriptionOnly(amount, description, sel, ncn) ==
    IF amount = 0 \/ description = << >> THEN "enter_amount_and_description"
    ELSE "ok"

\* Lines 161-166: the message of the validation branch taken, "ok" for the
\* else branch.  `not amount` is true of 0 only, `not description` of the
\* empty string only.
Validate(amount, description, sel, ncn) ==
    IF amount = 0 \/ description = << >> THEN "enter_amount_and_description"
    ELSE IF sel = SELECT_EXISTING THEN "select_or_create_category"
    ELSE IF sel = CREATE_NEW /\ ~Truthy(ncn) THEN "enter_new_category_name"
    ELSE "ok"

\* Lines 168-170.
final_category(sel, ncn) ==
    IF sel = CREATE_NEW /\ Truthy(ncn) THEN Title(Strip(ncn)) ELSE sel

\* Line 177: the category document passed to add().
CategoryDoc(final, ss) == [ name |-> final, userId |-> ss.user_id ]

\* The spending document with the description as typed, not trimmed.
SpendingDocUntrimmed(amount, description, final, ss) ==
    [ amount |-> amount, description |-> description, category |-> final,
      timestamp |-> SERVER_TIMESTAMP, userId |-> ss.user_id ]

\* Lines 184-190: the spending document passed to add().
SpendingDoc(amount, description, final, ss) ==
    [ amount |-> amount, description |-> Strip(description), category |-> final,
      timestamp |-> SERVER_TIMESTAMP, userId |-> ss.user_id ]

\* The try block with the spending add() ahead of the category add().
SubmitWritesSpendingFirst(final, cats, ss, amount, description, catFails, spFails) ==
    LET ref == get_collection_ref(ss)
        spReq == IF ref = NoneId THEN << >>
                 ELSE << [ coll |-> "spendings", path |-> ref,
                           doc |-> [ amount |-> amount, description |-> Strip(description),
                                     category |-> final, timestamp |-> SERVER_TIMESTAMP,
                                     userId |-> ss.user_id ],
                           ok |-> ~spFails ] >>
        raised == spReq # << >> /\ spFails
        catReq == IF ~raised /\ final \notin Elems(cats) /\ ref # NoneId
                  THEN << [ coll |-> "categories", path |-> ref,
                            doc |-> [ name |-> final, userId |-> ss.user_id ],
                            ok |-> ~catFails ] >>
                  ELSE << >>
    IN spReq \o catReq

\* The try block without the membership test of line 174: the category
\* add() is issued for every submission.
SubmitWritesAlwaysCreate(final, cats, ss, amount, description, catFails, spFails) ==
    LET ref == get_collection_ref(ss)
        catReq == IF ref # NoneId
                  THEN << [ coll |-> "categories", path |-> ref,
                            doc |-> [ name |-> final, userId |-> ss.user_id ],
                            ok |-> ~catFails ] >>
                  ELSE << >>
        raised == catReq # << >> /\ catFails
        spReq == IF raised \/ ref = NoneId THEN << >>
                 ELSE << [ coll |-> "spendings", path |-> ref,
                           doc |-> [ amount |-> amount, description |-> Strip(description),
                                     category |-> final, timestamp |-> SERVER_TIMESTAMP,
                                     userId |-> ss.user_id ],
                           ok |-> ~spFails ] >>
    IN catReq \o spReq

\* Lines 172-197: the add() calls of the try block, in order.  A call that
\* raises ends the block: the except clause of line 196 takes over.
SubmitWrites(final, cats, ss, amount, description, catFails, spFails) ==
    LET ref == get_collection_ref(ss)
        catReq == IF final \notin Elems(cats) /\ ref # NoneId
                  THEN << [ coll |-> "categories", path |-> ref,
                            doc |-> CategoryDoc(final, ss), ok |-> ~catFails ] >>
                  ELSE << >>
        raised == catReq # << >> /\ catFails
        spReq == IF raised \/ ref = NoneId THEN << >>
                 ELSE << [ coll |-> "spendings", path |-> ref,
                           doc |-> SpendingDoc(amount, description, final, ss),
                           ok |-> ~spFails ] >>
    IN catReq \o spReq

\* Firestore's add(): a call that does not raise appends the document with
\* a fresh id; the server replaces SERVER_TIMESTAMP by its commit time.
RECURSIVE Commit(_, _)
Commit(st, reqs) ==
    IF reqs = << >> THEN st
    ELSE LET r == Head(reqs)
             now == st.clock + 1
             next ==
                IF ~r.ok THEN st
                ELSE IF r.coll = "categories"
                THEN [ st EXCEPT !.cats[r.path] = Append(@, r.doc), !.clock = now ]
                ELSE [ st EXCEPT !.sps[r.path] =
                           Append(@, [ id |-> st.clock, amount |-> r.doc.amount,
                                       description |-> r.doc.description,
                                       category |-> r.doc.category, timestamp |-> now,
                                       userId |-> r.doc.userId ]),
                       !.clock = now ]
         IN Commit(next, Tail(reqs))

OkCount(reqs) == Cardinality({ i \in 1..Len(reqs) : reqs[i].ok })

\* The name of the category a submission created, None when it created
\* none or its spending write did not go through.
CreatedCategory(reqs) ==
    LET created == { i \in 1..Len(reqs) : reqs[i].coll = "categories" /\ reqs[i].ok }
        added == { i \in 1..Len(reqs) : reqs[i].coll = "spendings" /\ reqs[i].ok }
    IN IF created # { } /\ added # { }
       THEN reqs[CHOOSE i \in created : TRUE].doc.name
       ELSE NoneStr

\* Lines 179, 191-197: the messages of the try block.
SubmitMessages(reqs, ss) ==
    { "category_created" : i \in { j \in 1..Len(reqs) : reqs[j].coll = "categories" /\ reqs[j].ok } }
    \cup { "spending_added" : i \in { j \in 1..Len(reqs) : reqs[j].coll = "spendings" /\ reqs[j].ok } }
    \cup { "error_adding_spending" : i \in { j \in 1..Len(reqs) : ~reqs[j].ok } }
    \cup (IF get_collection_ref(ss) = NoneId THEN { "collection_not_ready" } ELSE { })

\* Lines 136-158 without a submission: the form is rendered with its
\* default values, nothing else.
RenderForm ==
    /\ pc = "form"
    /\ pc' = "display"
    /\ pending' = [pending EXCEPT ![running] = NoneStr]
    /\ UNCHANGED << initial_auth_token, sessions, session_state, categoriesColl, spendingsColl,
                    cache, clock, running, categories, categories_src, spendings_df,
                    form, msgs, writes, authAttempts >>

\* What st.text_input of line 148 can return: it is rendered only under
\* the "create new" entry, and new_category_name stays None otherwise.
TypedFor(selected) == IF selected = CREATE_NEW THEN NewNames ELSE { NoneStr }

\* Lines 136-197 of a run started by "Add Spending": the widget block, the
\* validation and, when it passes, the writes.
SubmitForm ==
    /\ pc = "form"
    /\ \E amount \in Amounts, description \in Descriptions,
          index \in 1..Len(category_options(categories)) :
       \E typed \in TypedFor(category_options(categories)[index]) :
        LET ss == session_state[running]
            selected == category_options(categories)[index]
            ncn == new_category_name(selected, typed)
            sel == selected_category_option(selected, typed)
            verdict == Validate(amount, description, sel, ncn)
            exists == selected = CREATE_NEW /\ Truthy(typed) /\ ncn \in Elems(categories)
        IN \E catFails \in (IF verdict = "ok" THEN BOOLEAN ELSE { FALSE }),
              spFails \in (IF verdict = "ok" THEN BOOLEAN ELSE { FALSE }) :
            LET reqs == IF verdict = "ok"
                        THEN SubmitWrites(final_category(sel, ncn), categories, ss,
                                          amount, description, catFails, spFails)
                        ELSE << >>
                st == Commit([ cats |-> categoriesColl, sps |-> spendingsColl,
                               clock |-> clock ], reqs)
            IN /\ DocCount + OkCount(reqs) <= MaxDocs
               /\ form' = [ submitted |-> TRUE, amount |-> amount,
                            description |-> description, index |-> index,
                            typed |-> typed ]
               /\ writes' = reqs
               /\ msgs' = msgs \cup (IF exists THEN { "category_exists" } ELSE { })
                               \cup (IF verdict = "ok" THEN SubmitMessages(reqs, ss)
                                     ELSE { verdict })
               /\ categoriesColl' = st.cats
               /\ spendingsColl' = st.sps
               /\ clock' = st.clock
               /\ session_state' = [session_state EXCEPT ![running].last_update_time =
                      IF OkCount(reqs) > 0 THEN st.clock ELSE @]
               /\ pending' = [pending EXCEPT ![running] = CreatedCategory(reqs)]
    /\ pc' = "display"
    /\ UNCHANGED << initial_auth_token, sessions, cache, running, categories, categories_src,
                    spendings_df, authAttempts >>

\* ------------------------------------------------------ specification

Next ==
    \/ \E s \in sessions : AuthBlock(s)
    \/ AuthGate
    \/ FetchCategoriesStep
    \/ RenderForm
    \/ SubmitForm
    \/ DisplayStep
    \/ \E fn \in { "fetch_spendings", "fetch_categories" } : ExpireCache(fn)

Spec == Init /\ [][Next]_vars

SpecShared == InitShared /\ [][Next]_vars

\* -------------------------------------------------------------- claims

\* The spec's normalization of a category name: trim, then title-case.
Normalize(str) == Title(Strip(str))

Coffee == << "C", "o", "f", "f", "e", "e" >>

ValidationMessages ==
    { "enter_amount_and_description", "select_or_create_category",
      "enter_new_category_name" }

\* The selectbox entry a form holds.
Selected(f) == category_options(categories)[f.index]

\* The run's form step handled a submission.
Submitted == pc = "display" /\ form.submitted

PassedValidation == Submitted /\ msgs \cap ValidationMessages = { }

\* The submission's spending write was issued and did not raise.
SubmitSucceeded ==
    /\ Submitted
    /\ \E i \in 1..Len(writes) : writes[i].coll = "spendings" /\ writes[i].ok

\* The category a submission names: the normalized new name under the
\* "create new" entry, the chosen entry otherwise.
ResolvedCategory ==
    IF Selected(form) = CREATE_NEW THEN Normalize(form.typed) ELSE Selected(form)

CategoryRequests == { i \in 1..Len(writes) : writes[i].coll = "categories" }
SpendingRequests == { i \in 1..Len(writes) : writes[i].coll = "spendings" }

Owner == session_state[running].user_id

\* C1: no user's categories collection holds two records whose normalized
\* names are equal.
C1_NoDuplicateCategories ==
    \A u \in Paths : \A i, j \in 1..Len(categoriesColl[u]) :
        i # j => Normalize(categoriesColl[u][i].name) # Normalize(categoriesColl[u][j].name)

\* C2: a submit whose description is empty after trim returns a validation
\* error and issues no SpendingRecord write.
C2_WhitespaceDescriptionRejected ==
    (Submitted /\ Strip(form.description) = << >>)
        => (msgs \cap ValidationMessages # { } /\ SpendingRequests = { })

\* C4: after a successful submit, the first fetch_spendings returns the
\* spending record the submit wrote, and the session's first
\* fetch_categories returns the category record it wrote, unless the fetch
\* itself fails.
C4_SubmitInvalidatesCache ==
    /\ (pc = "done" /\ "spending_added" \in msgs /\ "error_fetching_spendings" \notin msgs)
          => \E i \in 1..Len(spendings_df) :
                spendings_df[i].timestamp = clock /\ spendings_df[i].userId = Owner
    /\ (pc = "form" /\ pending[running] # NoneStr /\ "error_fetching_categories" \notin msgs)
          => pending[running] \in Elems(categories)

\* The spending write a submission that passed validation is to issue.
SpendingWriteIssued ==
    \E i \in SpendingRequests :
        /\ writes[i].path = Owner
        /\ writes[i].doc = [ amount |-> form.amount,
                             description |-> Strip(form.description),
                             category |-> ResolvedCategory,
                             timestamp |-> SERVER_TIMESTAMP,
                             userId |-> Owner ]

CategoryWriteFailed == \E i \in CategoryRequests : ~writes[i].ok

\* C5 as stated: every submit that passes validation issues the spending
\* write, also when its category write fails.
C5_SpendingWriteAlwaysIssued == PassedValidation => SpendingWriteIssued

\* C5 as amended: every submit that passes validation issues the spending
\* write with the resolved category, the trimmed description, the amount
\* and the server-timestamp sentinel, unless its category write fails; then
\* it issues no spending write.
C5_SpendingWriteUnlessCategoryFails ==
    PassedValidation =>
        IF CategoryWriteFailed THEN SpendingRequests = { }
        ELSE SpendingWriteIssued /\ Cardinality(SpendingRequests) = 1

C5_Witness ==
    /\ PassedValidation
    /\ CategoryRequests # { } /\ ~CategoryWriteFailed
    /\ SpendingWriteIssued
    /\ form.description # Strip(form.description)

\* C6: a successful submit whose resolved category is not in the fetched
\* category set issues exactly one category write and then exactly one
\* spending write, and stores the name normalized.
C6_NewCategoryThenSpending ==
    (SubmitSucceeded /\ ResolvedCategory \notin Elems(categories)) =>
        /\ Len(writes) = 2
        /\ writes[1].coll = "categories" /\ writes[1].ok
        /\ writes[2].coll = "spendings" /\ writes[2].ok
        /\ writes[1].doc.name = Normalize(form.typed)
        /\ LET coll == categoriesColl[Owner]
           IN coll # << >> /\ coll[Len(coll)].name = Normalize(form.typed)

C6_Witness ==
    /\ SubmitSucceeded
    /\ form.typed = << "c", "o", "f", "f", "e", "e" >>
    /\ categories = << >>
    /\ Len(writes) = 2
    /\ writes[1].doc.name = Coffee

\* C7: a successful submit whose resolved category is in the fetched
\* category set issues exactly one spending write and no category write;
\* a "create new" submit whose normalized name is in the set is not
\* rejected and goes on with the existing category.
C7_ExistingCategoryOnlySpending ==
    /\ (SubmitSucceeded /\ ResolvedCategory \in Elems(categories)) =>
          /\ Len(writes) = 1
          /\ writes[1].coll = "spendings"
          /\ writes[1].doc.category = ResolvedCategory
    /\ (Submitted /\ Selected(form) = CREATE_NEW /\ Truthy(form.typed)
          /\ Normalize(form.typed) \in Elems(categories) /\ form.description # << >>) =>
          /\ PassedValidation
          /\ CategoryRequests = { }
          /\ \A i \in SpendingRequests : writes[i].doc.category = Normalize(form.typed)
          /\ Cardinality(SpendingRequests) = 1

C7_Witness ==
    /\ SubmitSucceeded
    /\ Selected(form) = CREATE_NEW
    /\ form.typed = << " ", "C", "o", "f", "f", "e", "e", " " >>
    /\ Coffee \in Elems(categories)
    /\ Len(writes) = 1

\* The submission chose "Select an existing category", or chose
\* "--- Create New Category ---" and left the name empty.
NoCategoryGiven(f) ==
    /\ f.submitted
    /\ \/ Selected(f) = SELECT_EXISTING
       \/ Selected(f) = CREATE_NEW /\ ~Truthy(f.typed)

\* C8: a submit with the "select a category" entry, or with the "create
\* new" entry and an empty name, returns a validation error and issues no
\* write; the store and the last-write marker are unchanged.
C8_NoCategoryRejected ==
    [][ (pc = "form" /\ pc' = "display" /\ NoCategoryGiven(form')) =>
            /\ msgs' \cap ValidationMessages # { }
            /\ writes' = << >>
            /\ UNCHANGED << categoriesColl, spendingsColl, session_state >> ]_vars

C8_Witness ==
    /\ pc = "display"
    /\ NoCategoryGiven(form)
    /\ Selected(form) = CREATE_NEW
    /\ form.description # << >>
    /\ "enter_new_category_name" \in msgs

\* C9: a session whose sign-in failed has the fallback id, signs in once
\* only, and its runs stop at the gate: they fetch nothing and write
\* nothing.
C9_FailedAuthDisablesSession ==
    \A s \in Sessions :
        /\ authAttempts[s] <= 1
        /\ (running = s /\ "authentication_failed" \in msgs)
              => session_state[s].user_id = FALLBACK_ID
        /\ session_state[s].user_id = FALLBACK_ID =>
              /\ authAttempts[s] = 1
              /\ session_state[s].last_update_time = 0
              /\ running = s =>
                    /\ pc \in { "gate", "stopped" }
                    /\ writes = << >> /\ categories = << >> /\ spendings_df = << >>

C9_Witness ==
    /\ session_state[running].user_id = FALLBACK_ID
    /\ pc = "stopped"
    /\ msgs = { "could_not_authenticate" }
    /\ authAttempts[running] = 1

\* C10: every stored record lies in the collection of the user id it
\* carries, every write of a run goes to the running session's own
\* collections, and the category list and spending rows a run shows hold
\* only records of the running session's user.
C10_OwnershipIsolation ==
    /\ \A u \in Paths :
          /\ \A i \in 1..Len(categoriesColl[u]) : categoriesColl[u][i].userId = u
          /\ \A i \in 1..Len(spendingsColl[u]) : spendingsColl[u][i].userId = u
    /\ \A i \in 1..Len(writes) : writes[i].path = Owner /\ writes[i].doc.userId = Owner
    /\ (pc \in { "form", "display", "done" } /\ categories # << >>) => categories_src = Owner
    /\ pc = "done" => \A i \in 1..Len(spendings_df) : spendings_df[i].userId = Owner

====
